---- MODULE Spec2Model ----
(***************************************************************************)
(* A state-machine model of server.js: the session gate, the login flow,   *)
(* the news / player / product CRUD handlers, the upload handler and the   *)
(* process bootstrap.  Collections are functions from document ids to      *)
(* documents; a document and a request body are functions from field names *)
(* to values; a path is a sequence of segments.                            *)
(***************************************************************************)
EXTENDS Integers, Sequences, FiniteSets, TLC

VARIABLES
  running,      \* the process is listening (server.js:408)
  uploadDirOk,  \* public/uploads exists (server.js:16-19)
  admins,       \* the Admin collection: id -> document
  session,      \* the session the store holds for the browser's cookie
  lastChange,   \* history: the browser's last session-changing request
  news,         \* the News collection: id -> document
  players,      \* the Player collection: id -> document
  products,     \* the Product collection: id -> document
  nextId,       \* the next ObjectId the driver hands out
  fs,           \* the files on disk, each a path
  nextFile,     \* the next unique suffix multer's filename() draws
  quota,        \* how many documents and uploads a run may create
  slots,        \* the connections clients hold open to the server
  inflight,     \* per connection: the player request being handled
  resp          \* the response written by the last step, NoResp if none

vars == <<running, uploadDirOk, admins, session, lastChange, news, players,
          products, nextId, fs, nextFile, quota, slots, inflight, resp>>

----------------------------------------------------------------------------
(* Bounds of the model *)

\* documents created over a run, all collections together, and files
\* uploaded over a run: where one API is exercised alone
MaxDocs == 2
MaxUploads == 2
\* the same, where every route is exercised together
AllDocs == 1
AllUploads == 1
\* the same, where two connections are served concurrently
ConcDocs == 1
ConcUploads == 2

----------------------------------------------------------------------------
(* Paths: path.join and the directories of server.js *)

RECURSIVE NormalizeFrom(_, _)
NormalizeFrom(segs, acc) ==
  IF segs = <<>> THEN acc
  ELSE LET h == Head(segs)
           t == Tail(segs)
       IN IF h = "" \/ h = "." THEN NormalizeFrom(t, acc)
          ELSE IF h = ".."
            THEN NormalizeFrom(t, IF acc = <<>> THEN acc
                                  ELSE SubSeq(acc, 1, Len(acc) - 1))
            ELSE NormalizeFrom(t, Append(acc, h))

\* path.join(a, b): concatenate, then normalise "", "." and ".."
PathJoin(a, b) == NormalizeFrom(a \o b, <<>>)

\* __dirname
AppDir == <<"srv", "app">>
PublicDir == PathJoin(AppDir, <<"public">>)
uploadDir == PathJoin(AppDir, <<"public", "uploads">>)

IsPrefix(p, q) == Len(p) <= Len(q) /\ SubSeq(q, 1, Len(p)) = p
InUploadDir(path) == IsPrefix(uploadDir, path) /\ Len(path) > Len(uploadDir)

\* multer's filename(): 'player-' + uniqueSuffix + extname
FileName(n) == "player-" \o ToString(n)
\* `/uploads/${req.file.filename}`, split at "/"
UploadImage(name) == <<"", "uploads", name>>

\* the program's own source file, outside the served static root
ServerJs == PathJoin(AppDir, <<"server.js">>)

\* image strings a client sends in the image body field, split at "/":
\* "", "https://cdn.example/p.png", "/../server.js"
EmptyString == <<>>
ExternalUrl == <<"https:", "", "cdn.example", "p.png">>
TraversalImage == <<"", "..", "server.js">>
ClientImages == {EmptyString, ExternalUrl, TraversalImage}

----------------------------------------------------------------------------
(* Documents, request bodies, responses *)

NoDocs == <<>>
EmptyBody == <<>>
EmptySession == <<>>

Has(f, field) == field \in DOMAIN f

\* $set of the body's fields on the document (findByIdAndUpdate)
Merge(doc, body) ==
  [f \in DOMAIN doc \cup DOMAIN body |-> IF f \in DOMAIN body THEN body[f] ELSE doc[f]]

Put(coll, id, doc) == [i \in DOMAIN coll \cup {id} |-> IF i = id THEN doc ELSE coll[i]]
Remove(coll, id) == [i \in DOMAIN coll \ {id} |-> coll[i]]

\* request ids: a string that is no ObjectId, an ObjectId never handed out,
\* and the ObjectIds the driver hands out
BadId == -1
UnknownId == 0
ReqIds == {BadId, UnknownId} \cup (1..(nextId - 1))
NoId == -2
IsObjectId(id) == id >= 0

Clients == {"browser", "anon"}
\* req.session as the session middleware attaches it (server.js:53-66)
ReqSession(c) == IF c = "browser" THEN session ELSE EmptySession

NoPath == <<>>

\* what a step leaves behind for the properties to read: of the request the
\* route, the client, whether its session carried an administrator id and,
\* where a property reads them, the id parameter, the body and the uploaded
\* file; of the response the status, the redirect location, the page and
\* the documents sent; and what the handler met on the way
Resp(route, c, sess, status) ==
  [route |-> route, client |-> c, hadUser |-> Has(sess, "userId"),
   status |-> status, location |-> "", page |-> "", id |-> NoId,
   body |-> EmptyBody, file |-> EmptyString, docs |-> NoDocs,
   storeOk |-> TRUE, found |-> FALSE, image |-> EmptyString,
   unlinkFailed |-> FALSE, target |-> NoPath]

NoResp == Resp("none", "anon", EmptySession, 0)

Redirect(route, c, sess, to) == [Resp(route, c, sess, 302) EXCEPT !.location = to]

----------------------------------------------------------------------------
(* Schemas (server.js:77-121) *)

\* bcrypt: a salted hash of the password, and compare()
Hash(pw) == <<"bcrypt", pw>>
\* a comparison that accepts any password
BcryptCompareAny(pw, hash) == TRUE
BcryptCompare(pw, hash) == hash = Hash(pw)

AdminId == 1000
SeededAdmin == [username |-> "admin", password |-> Hash("secret"), role |-> "admin"]

NewsRequired == {"title", "content"}
NewsDefaults(body) ==
  Merge([author |-> "StealthUnitGG"], body)
NewsValid(body) == \A f \in NewsRequired : Has(body, f)

PlayerRequired == {"name", "username", "role", "game"}
PlayerValid(body) == \A f \in PlayerRequired : Has(body, f)

ProductRequired == {"name", "description", "price", "image"}
ProductCategories == {"Apparel", "Accessories", "Collectibles"}
ProductDefaults(body) ==
  Merge([inStock |-> TRUE], body)
ProductValid(body) ==
  /\ \A f \in ProductRequired : Has(body, f)
  /\ Has(body, "category") => body["category"] \in ProductCategories

----------------------------------------------------------------------------
(* Authentication middleware (server.js:130-135) *)

\* the gate without its check
requireAuthOpen(sess) == TRUE

requireAuth(sess) == Has(sess, "userId")

AllSlots == {1, 2}
\* a connection with no request on it; a request in flight holds what its
\* handler has read so far
Idle ==
  [pc |-> "idle", route |-> "none", client |-> "anon", hadUser |-> FALSE,
   id |-> NoId, file |-> EmptyString, found |-> FALSE, image |-> EmptyString,
   unlinkFailed |-> FALSE, target |-> NoPath]

\* a request is taken when a connection has none in flight
Free == \E s \in slots : inflight[s].pc = "idle"

\* everything but resp
state == <<running, uploadDirOk, admins, session, lastChange, news, players,
           products, nextId, fs, nextFile, quota, slots, inflight>>

\* a session-gated route with a handler that runs to completion in one step
Gated(route, c, Handler) ==
  /\ running
  /\ Free
  /\ IF requireAuth(ReqSession(c))
       THEN Handler
       ELSE /\ resp' = Redirect(route, c, ReqSession(c), "/adminp/login")
            /\ UNCHANGED state

----------------------------------------------------------------------------
(* Bootstrap (server.js:15-19, 68-74, 407-416) *)


\* mkdir public/uploads, connect, listen; nothing is written to a collection
Start ==
  /\ ~running
  /\ running' = TRUE
  /\ uploadDirOk' = TRUE
  /\ resp' = NoResp
  /\ UNCHANGED <<admins, session, lastChange, news, players, products, nextId,
                 fs, nextFile, quota, slots, inflight>>

\* the process exits (server.js:413-416); requests in flight are dropped
Exit ==
  /\ running
  /\ running' = FALSE
  /\ inflight' = [s \in AllSlots |-> Idle]
  /\ resp' = NoResp
  /\ UNCHANGED <<uploadDirOk, admins, session, lastChange, news, players,
                 products, nextId, fs, nextFile, quota, slots>>

----------------------------------------------------------------------------
(* Login flow (server.js:163-208) *)

Usernames == {"admin", "guest"}
Passwords == {"secret", "wrong"}

\* Admin.findOne({ username })
FindAdmin(username) == {a \in DOMAIN admins : admins[a]["username"] = username}

LoginSession(sess, a) ==
  Merge(sess, [userId |-> a, username |-> admins[a]["username"],
               role |-> admins[a]["role"]])

\* the credentials are those of a stored administrator
ValidCredentials(username, password) ==
  \E a \in DOMAIN admins :
    admins[a]["username"] = username /\ admins[a]["password"] = Hash(password)

PostLogin ==
  /\ running
  /\ Free
  /\ \E username \in Usernames, password \in Passwords, storeOk \in BOOLEAN :
       LET route == "POST /adminp/login"
           sess == ReqSession("browser")
           found == FindAdmin(username)
       IN IF ~storeOk
            THEN /\ resp' = [Resp(route, "browser", sess, 500) EXCEPT !.storeOk = FALSE]
                 /\ UNCHANGED <<session, lastChange>>
            ELSE IF \E a \in found : BcryptCompare(password, admins[a]["password"])
              THEN /\ session' = LoginSession(sess, CHOOSE a \in found : TRUE)
                   /\ resp' = Redirect(route, "browser", sess, "/adminp/dashboard")
                   /\ lastChange' = IF ValidCredentials(username, password)
                                      THEN "login" ELSE "invalid-login"
                   \* lastChange is history, not program state: it records
                   \* what kind of request last changed the session
              ELSE /\ resp' = Resp(route, "browser", sess, 401)
                   /\ UNCHANGED <<session, lastChange>>
  /\ UNCHANGED <<running, uploadDirOk, admins, news, players, products, nextId,
                 fs, nextFile, quota, slots, inflight>>

\* req.session.destroy(), then the redirect
GetLogout ==
  /\ running
  /\ Free
  /\ session' = EmptySession
  /\ lastChange' = "logout"
  /\ resp' = Redirect("GET /adminp/logout", "browser", session, "/adminp/login")
  /\ UNCHANGED <<running, uploadDirOk, admins, news, players, products, nextId,
                 fs, nextFile, quota, slots, inflight>>

GetDashboard ==
  \E c \in Clients :
    Gated("GET /adminp/dashboard", c,
          /\ resp' = [Resp("GET /adminp/dashboard", c, ReqSession(c), 200)
                        EXCEPT !.page = "admin/dashboard.html"]
          /\ UNCHANGED state)

----------------------------------------------------------------------------
(* News API (server.js:211-246, 369-376) *)

NewsFields == [title |-> "Roster update", content |-> "We signed a new duelist"]
NewsBodies == {[f \in S |-> NewsFields[f]] : S \in SUBSET DOMAIN NewsFields}
NewsUpdates == {EmptyBody, [title |-> "Roster update"]}

GetAdminNews ==
  \E c \in Clients :
    LET route == "GET /api/admin/news" IN
    Gated(route, c,
          /\ \E storeOk \in BOOLEAN :
               resp' = IF storeOk
                         THEN [Resp(route, c, ReqSession(c), 200) EXCEPT !.docs = news]
                         ELSE [Resp(route, c, ReqSession(c), 500) EXCEPT !.storeOk = FALSE]
          /\ UNCHANGED state)

\* new News(req.body).save(): the schema's validation, then the insert
PostNews ==
  \E c \in Clients :
    LET route == "POST /api/admin/news" IN
    Gated(route, c,
          \E body \in NewsBodies, storeOk \in BOOLEAN :
            LET r(status) == [Resp(route, c, ReqSession(c), status)
                                EXCEPT !.body = body, !.storeOk = storeOk]
            IN IF storeOk /\ NewsValid(body)
                 THEN /\ nextId <= quota.docs
                      /\ news' = Put(news, nextId, NewsDefaults(body))
                      /\ nextId' = nextId + 1
                      /\ resp' = [r(201) EXCEPT !.id = nextId]
                      /\ UNCHANGED <<running, uploadDirOk, admins, session,
                                     lastChange, players, products, fs, nextFile,
                                     quota, slots, inflight>>
                 ELSE /\ resp' = r(500)
                      /\ UNCHANGED state)

\* News.findByIdAndUpdate(id, body, { new: true }): null when nothing matches
PutNews ==
  \E c \in Clients :
    LET route == "PUT /api/admin/news/:id" IN
    Gated(route, c,
          \E id \in ReqIds, body \in NewsUpdates, storeOk \in BOOLEAN :
            LET r(status) == [Resp(route, c, ReqSession(c), status)
                                EXCEPT !.storeOk = storeOk]
            IN IF storeOk /\ IsObjectId(id)
                 THEN /\ news' = IF id \in DOMAIN news
                                   THEN Put(news, id, Merge(news[id], body)) ELSE news
                      /\ resp' = r(200)
                      /\ UNCHANGED <<running, uploadDirOk, admins, session,
                                     lastChange, players, products, nextId, fs,
                                     nextFile, quota, slots, inflight>>
                 ELSE /\ resp' = r(500)
                      /\ UNCHANGED state)

\* News.findByIdAndDelete(id): resolves, with null, when nothing matches
DeleteNews ==
  \E c \in Clients :
    LET route == "DELETE /api/admin/news/:id" IN
    Gated(route, c,
          \E id \in ReqIds, storeOk \in BOOLEAN :
            LET r(status) == [Resp(route, c, ReqSession(c), status)
                                EXCEPT !.id = id, !.storeOk = storeOk,
                                       !.found = id \in DOMAIN news]
            IN IF storeOk /\ IsObjectId(id)
                 THEN /\ news' = Remove(news, id)
                      /\ resp' = r(200)
                      /\ UNCHANGED <<running, uploadDirOk, admins, session,
                                     lastChange, players, products, nextId, fs,
                                     nextFile, quota, slots, inflight>>
                 ELSE /\ resp' = r(500)
                      /\ UNCHANGED state)

----------------------------------------------------------------------------
(* Products API (server.js:331-366, 387-394) *)

ProductFull ==
  [name |-> "Jersey", description |-> "2026 home kit", price |-> 60,
   image |-> "/img/jersey.png"]
ProductOptions ==
  {EmptyBody, [inStock |-> TRUE], [inStock |-> FALSE], [category |-> "Apparel"],
   [category |-> "Hats"]}
ProductBodies ==
  {Merge(ProductFull, opt) : opt \in ProductOptions}
    \cup {[f \in DOMAIN ProductFull \ {"price"} |-> ProductFull[f]]}
ProductUpdates == {EmptyBody, [inStock |-> TRUE], [inStock |-> FALSE]}

\* Product.find(filter)
FindProducts(filter) ==
  LET hit == {i \in DOMAIN products :
                \A f \in DOMAIN filter : products[i][f] = filter[f]}
  IN [i \in hit |-> products[i]]

AdminProductFilter == EmptyBody
\* the public listing without its filter
PublicProductFilterNone == EmptyBody
PublicProductFilter == [inStock |-> TRUE]

GetAdminProducts ==
  \E c \in Clients :
    LET route == "GET /api/admin/products" IN
    Gated(route, c,
          /\ \E storeOk \in BOOLEAN :
               resp' = IF storeOk
                         THEN [Resp(route, c, ReqSession(c), 200)
                                 EXCEPT !.docs = FindProducts(AdminProductFilter)]
                         ELSE [Resp(route, c, ReqSession(c), 500)
                                 EXCEPT !.storeOk = FALSE]
          /\ UNCHANGED state)

\* ungated
GetProducts ==
  /\ running
  /\ Free
  /\ \E c \in Clients, storeOk \in BOOLEAN :
       LET route == "GET /api/products" IN
       resp' = IF storeOk
                 THEN [Resp(route, c, ReqSession(c), 200)
                         EXCEPT !.docs = FindProducts(PublicProductFilter)]
                 ELSE [Resp(route, c, ReqSession(c), 500) EXCEPT !.storeOk = FALSE]
  /\ UNCHANGED state

PostProduct ==
  \E c \in Clients :
    LET route == "POST /api/admin/products" IN
    Gated(route, c,
          \E body \in ProductBodies, storeOk \in BOOLEAN :
            LET r(status) == [Resp(route, c, ReqSession(c), status)
                                EXCEPT !.storeOk = storeOk]
            IN IF storeOk /\ ProductValid(body)
                 THEN /\ nextId <= quota.docs
                      /\ products' = Put(products, nextId, ProductDefaults(body))
                      /\ nextId' = nextId + 1
                      /\ resp' = [r(201) EXCEPT !.id = nextId, !.body = body]
                      /\ UNCHANGED <<running, uploadDirOk, admins, session,
                                     lastChange, news, players, fs, nextFile,
                                     quota, slots, inflight>>
                 ELSE /\ resp' = r(500)
                      /\ UNCHANGED state)

PutProduct ==
  \E c \in Clients :
    LET route == "PUT /api/admin/products/:id" IN
    Gated(route, c,
          \E id \in ReqIds, body \in ProductUpdates, storeOk \in BOOLEAN :
            LET r(status) == [Resp(route, c, ReqSession(c), status)
                                EXCEPT !.storeOk = storeOk]
            IN IF storeOk /\ IsObjectId(id)
                 THEN /\ products' =
                           IF id \in DOMAIN products
                             THEN Put(products, id, Merge(products[id], body))
                             ELSE products
                      /\ resp' = r(200)
                      /\ UNCHANGED <<running, uploadDirOk, admins, session,
                                     lastChange, news, players, nextId, fs,
                                     nextFile, quota, slots, inflight>>
                 ELSE /\ resp' = r(500)
                      /\ UNCHANGED state)

DeleteProduct ==
  \E c \in Clients :
    LET route == "DELETE /api/admin/products/:id" IN
    Gated(route, c,
          \E id \in ReqIds, storeOk \in BOOLEAN :
            LET r(status) == [Resp(route, c, ReqSession(c), status)
                                EXCEPT !.id = id, !.storeOk = storeOk,
                                       !.found = id \in DOMAIN products]
            IN IF storeOk /\ IsObjectId(id)
                 THEN /\ products' = Remove(products, id)
                      /\ resp' = r(200)
                      /\ UNCHANGED <<running, uploadDirOk, admins, session,
                                     lastChange, news, players, nextId, fs,
                                     nextFile, quota, slots, inflight>>
                 ELSE /\ resp' = r(500)
                      /\ UNCHANGED state)

----------------------------------------------------------------------------
(* Players API with file upload (server.js:21-45, 249-328) *)

PlayerFull ==
  [name |-> "Ada Park", username |-> "adapark", role |-> "Duelist", game |-> "Valorant"]
PlayerNoGame == [f \in DOMAIN PlayerFull \ {"game"} |-> PlayerFull[f]]
PlayerBodies ==
  {PlayerFull, PlayerNoGame, EmptyBody}
    \cup {Merge(b, [image |-> i]) : b \in {PlayerFull, EmptyBody}, i \in ClientImages}

\* the file part of the multipart form: none, one the fileFilter accepts,
\* one it rejects
FileParts == {"none", "image", "other"}
fileFilter(part) == part = "image"

\* the response of a player request, from the request the connection holds
PlayerResp(q, status, storeOk) ==
  [Resp(q.route, q.client, EmptySession, status)
     EXCEPT !.hadUser = q.hadUser, !.id = q.id, !.file = q.file,
            !.found = q.found, !.image = q.image, !.unlinkFailed = q.unlinkFailed,
            !.target = q.target, !.storeOk = storeOk]

Request(route, c, pc) ==
  [Idle EXCEPT !.pc = pc, !.route = route, !.client = c,
               !.hadUser = Has(ReqSession(c), "userId")]

Finish(s, r) ==
  /\ inflight' = [inflight EXCEPT ![s] = Idle]
  /\ resp' = r

Goto(s, q) ==
  /\ inflight' = [inflight EXCEPT ![s] = q]
  /\ resp' = NoResp

GetAdminPlayers ==
  \E c \in Clients :
    LET route == "GET /api/admin/players" IN
    Gated(route, c,
          /\ \E storeOk \in BOOLEAN :
               resp' = IF storeOk
                         THEN [Resp(route, c, ReqSession(c), 200) EXCEPT !.docs = players]
                         ELSE [Resp(route, c, ReqSession(c), 500) EXCEPT !.storeOk = FALSE]
          /\ UNCHANGED state)

\* requireAuth, then upload.single('image'): a request of route `route` arrives
\* on connection s; `next` is where its handler starts.  The handler draws
\* req.params.id and req.body where it first uses them.
Arrive(s, route, c, part, next) ==
  /\ running
  /\ s \in slots
  /\ inflight[s].pc = "idle"
  /\ IF ~requireAuth(ReqSession(c))
       THEN /\ resp' = Redirect(route, c, ReqSession(c), "/adminp/login")
            /\ UNCHANGED state
       ELSE IF part = "none"
         THEN /\ Goto(s, Request(route, c, next))
              /\ UNCHANGED <<fs, nextFile>>
         ELSE IF ~fileFilter(part)
           \* cb(new Error('Images only')): the error middleware answers
           THEN /\ resp' = Resp(route, c, ReqSession(c), 500)
                /\ UNCHANGED <<inflight, fs, nextFile>>
           ELSE /\ nextFile <= quota.uploads
                /\ uploadDirOk
                /\ fs' = fs \cup {PathJoin(uploadDir, <<FileName(nextFile)>>)}
                /\ nextFile' = nextFile + 1
                /\ Goto(s, [Request(route, c, next)
                              EXCEPT !.file = UploadImage(FileName(nextFile))])
  /\ UNCHANGED <<running, uploadDirOk, admins, session, lastChange, news, players,
                 products, nextId, quota, slots>>

\* const player = await Player.findById(id): the snapshot the handler goes
\* on with
Snapshot(q, id) ==
  IF id \in DOMAIN players
    THEN [q EXCEPT !.id = id, !.found = TRUE, !.image = players[id]["image"]]
    ELSE [q EXCEPT !.id = id, !.found = FALSE]

\* the join without the static root
oldImagePathNoPublic(image) == PathJoin(AppDir, image)

\* path.join(__dirname, 'public', player.image)
oldImagePath(image) == PathJoin(AppDir, <<"public">> \o image)

\* the guard of the removal: if (player && player.image) and existsSync
RemovesFile(q) ==
  q.found /\ q.image # EmptyString /\ oldImagePath(q.image) \in fs

\* the removal without its own try/catch: the outer catch answers 500
UnlinkThrewUncaught(s, q, next) ==
  /\ fs' = fs
  /\ Finish(s, PlayerResp([q EXCEPT !.target = oldImagePath(q.image),
                                    !.unlinkFailed = TRUE], 500, TRUE))

\* what a throwing fs.unlinkSync leads to: the inner catch logs it and the
\* handler goes on
UnlinkThrew(s, q, next) ==
  /\ fs' = fs
  /\ Goto(s, [q EXCEPT !.pc = next, !.target = oldImagePath(q.image),
                       !.unlinkFailed = TRUE])

\* if (player && player.image) { if (fs.existsSync(p)) fs.unlinkSync(p) },
\* inside its own try/catch
RemoveImage(s, next) ==
  LET q == inflight[s]
      p == oldImagePath(q.image)
  IN IF RemovesFile(q)
       THEN \/ /\ fs' = fs \ {p}
               /\ Goto(s, [q EXCEPT !.pc = next, !.target = p])
            \/ UnlinkThrew(s, q, next)
       ELSE /\ Goto(s, [q EXCEPT !.pc = next])
            /\ UNCHANGED fs

PostPlayerArrive(s) ==
  \E c \in Clients, part \in FileParts :
    Arrive(s, "POST /api/admin/players", c, part, "save")

\* req.file ? `/uploads/${req.file.filename}` : (req.body.image || '')
imagePath(file, body) ==
  IF file # EmptyString THEN file
  ELSE IF Has(body, "image") /\ body["image"] # EmptyString
    THEN body["image"] ELSE EmptyString

\* server.js:259-274
PostPlayerSave(s) ==
  /\ running
  /\ inflight[s].pc = "save"
  /\ \E body \in PlayerBodies, storeOk \in BOOLEAN :
       LET q == inflight[s]
           playerData == Merge(body, [image |-> imagePath(q.file, body)])
       IN IF storeOk /\ PlayerValid(playerData)
            THEN /\ nextId <= quota.docs
                 /\ players' = Put(players, nextId, playerData)
                 /\ nextId' = nextId + 1
                 /\ Finish(s, [PlayerResp(q, 201, storeOk) EXCEPT !.id = nextId])
            ELSE /\ Finish(s, PlayerResp(q, 500, storeOk))
                 /\ UNCHANGED <<players, nextId>>
  /\ UNCHANGED <<running, uploadDirOk, admins, session, lastChange, news, products,
                 fs, nextFile, quota, slots>>

PutPlayerArrive(s) ==
  \E c \in Clients, part \in FileParts :
    Arrive(s, "PUT /api/admin/players/:id", c, part,
           IF part = "none" THEN "update" ELSE "find")

\* server.js:287, inside the inner try: a failing lookup is logged
PutPlayerFind(s) ==
  /\ running
  /\ inflight[s].pc = "find"
  /\ inflight[s].route = "PUT /api/admin/players/:id"
  /\ \E id \in ReqIds, storeOk \in BOOLEAN :
       LET q == inflight[s] IN
       IF storeOk /\ IsObjectId(id)
         THEN Goto(s, [Snapshot(q, id) EXCEPT !.pc = "unlink"])
         ELSE Goto(s, [q EXCEPT !.pc = "update", !.id = id])
  /\ UNCHANGED <<running, uploadDirOk, admins, session, lastChange, news, players,
                 products, nextId, fs, nextFile, quota, slots>>

\* server.js:288-293
PutPlayerUnlink(s) ==
  /\ running
  /\ inflight[s].pc = "unlink"
  /\ inflight[s].route = "PUT /api/admin/players/:id"
  /\ RemoveImage(s, "update")
  /\ UNCHANGED <<running, uploadDirOk, admins, session, lastChange, news, players,
                 products, nextId, nextFile, quota, slots>>

\* updateData of server.js:279-283
updateData(file, body) ==
  IF file # EmptyString THEN Merge(body, [image |-> file]) ELSE body

\* server.js:299-300
PutPlayerUpdate(s) ==
  /\ running
  /\ inflight[s].pc = "update"
  /\ \E id \in ReqIds, body \in PlayerBodies, storeOk \in BOOLEAN :
       LET q == [inflight[s] EXCEPT !.id = IF @ = NoId THEN id ELSE @] IN
       /\ id = q.id
       /\ IF storeOk /\ IsObjectId(id)
            THEN /\ players' =
                      IF id \in DOMAIN players
                        THEN Put(players, id, Merge(players[id], updateData(q.file, body)))
                        ELSE players
                 /\ Finish(s, PlayerResp(q, 200, storeOk))
            ELSE /\ Finish(s, PlayerResp(q, 500, storeOk))
                 /\ UNCHANGED players
  /\ UNCHANGED <<running, uploadDirOk, admins, session, lastChange, news, products,
                 nextId, fs, nextFile, quota, slots>>

DeletePlayerArrive(s) ==
  \E c \in Clients :
    Arrive(s, "DELETE /api/admin/players/:id", c, "none", "find")

\* server.js:309: a failing lookup reaches the outer catch
DeletePlayerFind(s) ==
  /\ running
  /\ inflight[s].pc = "find"
  /\ inflight[s].route = "DELETE /api/admin/players/:id"
  /\ \E id \in ReqIds, storeOk \in BOOLEAN :
       LET q == inflight[s] IN
       IF storeOk /\ IsObjectId(id)
         THEN Goto(s, [Snapshot(q, id) EXCEPT !.pc = "unlink"])
         ELSE Finish(s, PlayerResp([q EXCEPT !.id = id], 500, storeOk))
  /\ UNCHANGED <<running, uploadDirOk, admins, session, lastChange, news, players,
                 products, nextId, fs, nextFile, quota, slots>>

\* server.js:312-321
DeletePlayerUnlink(s) ==
  /\ running
  /\ inflight[s].pc = "unlink"
  /\ inflight[s].route = "DELETE /api/admin/players/:id"
  /\ RemoveImage(s, "delete")
  /\ UNCHANGED <<running, uploadDirOk, admins, session, lastChange, news, players,
                 products, nextId, nextFile, quota, slots>>

\* server.js:323-324
DeletePlayerDelete(s) ==
  /\ running
  /\ inflight[s].pc = "delete"
  /\ \E storeOk \in BOOLEAN :
       LET q == inflight[s] IN
       IF storeOk
         THEN /\ players' = Remove(players, q.id)
              /\ Finish(s, PlayerResp(q, 200, storeOk))
         ELSE /\ Finish(s, PlayerResp(q, 500, storeOk))
              /\ UNCHANGED players
  /\ UNCHANGED <<running, uploadDirOk, admins, session, lastChange, news, products,
                 nextId, fs, nextFile, quota, slots>>

----------------------------------------------------------------------------
(* Specifications *)

Empty ==
  /\ session = EmptySession
  /\ lastChange = "none"
  /\ news = NoDocs
  /\ players = NoDocs
  /\ products = NoDocs
  /\ nextId = 1
  /\ fs = {ServerJs}
  /\ nextFile = 1
  /\ inflight = [s \in AllSlots |-> Idle]
  /\ resp = NoResp

\* before the first start: the Admin collection is empty or holds an
\* administrator created out of band; one connection, so one request at a time
Init ==
  /\ running = FALSE
  /\ uploadDirOk \in BOOLEAN
  /\ admins \in {NoDocs, [a \in {AdminId} |-> SeededAdmin]}
  /\ quota = [docs |-> AllDocs, uploads |-> AllUploads]
  /\ slots = {1}
  /\ Empty

\* the process is up and the browser has logged in as the stored administrator
LoggedIn ==
  /\ running = TRUE
  /\ uploadDirOk = TRUE
  /\ admins = [a \in {AdminId} |-> SeededAdmin]
  /\ news = NoDocs
  /\ players = NoDocs
  /\ products = NoDocs
  /\ nextId = 1
  /\ fs = {ServerJs}
  /\ nextFile = 1
  /\ inflight = [s \in AllSlots |-> Idle]
  /\ session = LoginSession(EmptySession, AdminId)
  /\ lastChange = "login"
  /\ resp = Redirect("POST /adminp/login", "browser", EmptySession, "/adminp/dashboard")

InitApi ==
  /\ LoggedIn
  /\ quota = [docs |-> MaxDocs, uploads |-> MaxUploads]
  /\ slots = {1}

InitGate ==
  /\ LoggedIn
  /\ quota = [docs |-> AllDocs, uploads |-> AllUploads]
  /\ slots = {1}

InitConc ==
  /\ LoggedIn
  /\ quota = [docs |-> ConcDocs, uploads |-> ConcUploads]
  /\ slots = {1, 2}

Auth == Start \/ Exit \/ PostLogin \/ GetLogout \/ GetDashboard

NewsApi == GetAdminNews \/ PostNews \/ PutNews \/ DeleteNews

ProductsApi ==
  GetAdminProducts \/ GetProducts \/ PostProduct \/ PutProduct \/ DeleteProduct

PlayersApi ==
  \/ GetAdminPlayers
  \/ \E s \in AllSlots :
       \/ PostPlayerArrive(s) \/ PostPlayerSave(s)
       \/ PutPlayerArrive(s) \/ PutPlayerFind(s) \/ PutPlayerUnlink(s)
       \/ PutPlayerUpdate(s)
       \/ DeletePlayerArrive(s) \/ DeletePlayerFind(s) \/ DeletePlayerUnlink(s)
       \/ DeletePlayerDelete(s)

Next == Auth \/ NewsApi \/ ProductsApi \/ PlayersApi

\* every route, from before the first start
Spec == Init /\ [][Next]_vars

\* the login flow, with one gated API beside the dashboard
SpecAuth == Init /\ [][Auth \/ NewsApi]_vars

\* every session-gated route, while the browser holds a session
SpecGate == InitGate /\ [][GetDashboard \/ NewsApi \/ ProductsApi \/ PlayersApi]_vars

\* the news and products APIs, one request at a time
SpecStore == InitApi /\ [][NewsApi \/ ProductsApi]_vars

\* the players API, one request at a time
SpecPlayers == InitApi /\ [][PlayersApi]_vars

\* the players API, two connections served concurrently
SpecConc == InitConc /\ [][PlayersApi]_vars

----------------------------------------------------------------------------
(* Properties *)

GatedRoutes ==
  {"GET /adminp/dashboard",
   "GET /api/admin/news", "POST /api/admin/news",
   "PUT /api/admin/news/:id", "DELETE /api/admin/news/:id",
   "GET /api/admin/players", "POST /api/admin/players",
   "PUT /api/admin/players/:id", "DELETE /api/admin/players/:id",
   "GET /api/admin/products", "POST /api/admin/products",
   "PUT /api/admin/products/:id", "DELETE /api/admin/products/:id"}

Quiet == \A s \in slots : inflight[s].pc = "idle"

\* an image string of the form /uploads/<name>, and the file it names
IsManaged(image) == Len(image) = 3 /\ image[1] = "" /\ image[2] = "uploads"
ManagedFile(image) == uploadDir \o <<image[3]>>

\* C1: a step that answers a request to a session-gated route whose session
\* carried no administrator id answers with a redirect to /adminp/login,
\* starts no handler, and leaves the news, player and product collections
\* and the files unchanged.
C1_GateRedirects ==
  [][(resp'.route \in GatedRoutes /\ ~resp'.hadUser)
       => /\ resp'.status = 302
          /\ resp'.location = "/adminp/login"
          /\ UNCHANGED <<news, players, products, fs>>
          /\ UNCHANGED inflight]_vars

\* an anonymous DELETE of a stored player is turned away while the browser
\* holds an administrator session
C1_Witness ==
  /\ resp.route = "DELETE /api/admin/players/:id"
  /\ ~resp.hadUser
  /\ resp.status = 302
  /\ players # NoDocs
  /\ Has(session, "userId")

C3_MissingFieldIs400 ==
  [][(/\ resp'.route = "POST /api/admin/news"
      /\ resp'.hadUser
      /\ resp'.storeOk
      /\ (~Has(resp'.body, "title") \/ ~Has(resp'.body, "content")))
       => (resp'.status = 400 /\ news' = news)]_vars

\* C4: an authenticated DELETE of a news article, player or product whose id
\* matches no stored record is answered with status 404 and leaves every
\* collection unchanged (stated for a well-formed id and a store that
\* answers, where the claim fails too).
C4_DeleteMissingIs404 ==
  [][(/\ resp'.hadUser
      /\ resp'.storeOk
      /\ IsObjectId(resp'.id)
      /\ \/ resp'.route = "DELETE /api/admin/news/:id" /\ resp'.id \notin DOMAIN news
         \/ resp'.route = "DELETE /api/admin/players/:id" /\ resp'.id \notin DOMAIN players
         \/ resp'.route = "DELETE /api/admin/products/:id" /\ resp'.id \notin DOMAIN products)
       => (resp'.status = 404 /\ UNCHANGED <<news, players, products>>)]_vars

\* C5: unless the store fails, GET /api/products is answered 200 with exactly
\* the stored products whose inStock is true, and an authenticated GET
\* /api/admin/products with all stored products; a product created with
\* inStock omitted is stored with inStock true, one created with an inStock
\* value is stored with that value.
C5_ProductListings ==
  /\ (resp.route = "GET /api/products" /\ resp.storeOk)
       => /\ resp.status = 200
          /\ DOMAIN resp.docs = {i \in DOMAIN products : products[i]["inStock"] = TRUE}
          /\ \A i \in DOMAIN resp.docs : resp.docs[i] = products[i]
  /\ (resp.route = "GET /api/admin/products" /\ resp.hadUser /\ resp.storeOk)
       => (resp.status = 200 /\ resp.docs = products)
  /\ (resp.route = "POST /api/admin/products" /\ resp.status = 201)
       => /\ resp.id \in DOMAIN products
          /\ products[resp.id]["inStock"] =
               IF Has(resp.body, "inStock") THEN resp.body["inStock"] ELSE TRUE

\* the public listing is sent while one stored product is in stock and
\* another is not
C5_Witness ==
  /\ resp.route = "GET /api/products"
  /\ resp.status = 200
  /\ \E i, j \in DOMAIN products :
       /\ products[i]["inStock"] = TRUE
       /\ products[j]["inStock"] = FALSE
       /\ i \in DOMAIN resp.docs
       /\ j \notin DOMAIN resp.docs

\* C6: an authenticated DELETE /api/admin/players/:id that found the player,
\* met no store failure and no failing file removal is answered 200 with the
\* record removed; if the player's image named a file of the upload
\* directory that file is gone too, and if it was an external URL no file
\* removal was attempted.
C6_DeleteRemovesRecordAndFile ==
  (/\ resp.route = "DELETE /api/admin/players/:id"
   /\ resp.hadUser /\ resp.found /\ resp.storeOk /\ ~resp.unlinkFailed)
    => /\ resp.status = 200
       /\ resp.id \notin DOMAIN players
       /\ IsManaged(resp.image) => ManagedFile(resp.image) \notin fs
       /\ resp.image = ExternalUrl => resp.target = NoPath

\* a player whose image named an existing upload was deleted, file and all
C6_Witness ==
  /\ resp.route = "DELETE /api/admin/players/:id"
  /\ resp.status = 200
  /\ resp.found
  /\ IsManaged(resp.image)
  /\ resp.target = ManagedFile(resp.image)
  /\ ~resp.unlinkFailed

\* C7: once the process has started, the admins collection holds exactly one
\* administrator.
C7_OneAdminAfterStart ==
  running => Cardinality(DOMAIN admins) = 1

\* C8: every file a step removes lies in the upload directory.
C8_OnlyUploadsRemoved ==
  [][\A p \in fs \ fs' : InUploadDir(p)]_vars

\* C9: when removing the image file failed during an authenticated player
\* delete or a player update with an uploaded replacement, and the store did
\* not fail, the response is 200 and the record is deleted, respectively
\* carries the replacement image.
C9_UnlinkFailureOnlyLogged ==
  (resp.unlinkFailed /\ resp.storeOk)
    => /\ resp.status = 200
       /\ resp.route = "DELETE /api/admin/players/:id" => resp.id \notin DOMAIN players
       /\ resp.route = "PUT /api/admin/players/:id"
            => (resp.id \in DOMAIN players /\ players[resp.id]["image"] = resp.file)

\* a player update survived the failing removal of the superseded upload
C9_Witness ==
  /\ resp.route = "PUT /api/admin/players/:id"
  /\ resp.unlinkFailed
  /\ resp.status = 200
  /\ IsManaged(resp.image)
  /\ resp.target \in fs

\* C10: whenever no player request is in flight, every stored player whose
\* image names an upload refers to an existing file of the upload directory,
\* and every file of the upload directory is referenced by a stored player.
C10_FilesMatchRecords ==
  Quiet =>
    /\ \A i \in DOMAIN players :
         IsManaged(players[i]["image"]) => ManagedFile(players[i]["image"]) \in fs
    /\ \A p \in fs :
         InUploadDir(p) => \E i \in DOMAIN players :
                             players[i]["image"] = UploadImage(p[Len(p)])

====
